---------------------------- MODULE Spec2Model ----------------------------
(***************************************************************************)
(* A model of the Trails Database scraper (src/scraper.py and              *)
(* src/trailsdb_api.py).                                                   *)
(*                                                                         *)
(* Python strings are modelled as sequences of one-character strings, so   *)
(* that normalisation, regular-expression matching and integer parsing are *)
(* computed character by character, as the code computes them.  Python's   *)
(* None is the value None below, a sequence that is no string because its  *)
(* single element is longer than one character.                            *)
(*                                                                         *)
(* Five specifications share the variables:                                *)
(*   SpecText     process_text applied to every bounded input string;      *)
(*   SpecScan     scrape_entries (the HTML range scanner) over             *)
(*                extract_entry;                                           *)
(*   SpecRun      main / get_interactive_inputs / run_scraper /            *)
(*                fetch_entries_via_api / export_txt / export_html;        *)
(*   SpecExtract  extract_entry applied to rows of catalogued cells;       *)
(*   SpecFetch    fetch_page and get_script_detail, request by request.    *)
(***************************************************************************)
EXTENDS Integers, Sequences, FiniteSets, TLC

VARIABLES
    pc,                  \* position of the running function
    text_in,             \* process_text: the argument
    text_out,            \* process_text: the returned value
    page,                \* the document the server holds at the URL
    soup,                \* scrape_entries: the fetched document, or NoSoup
    entry_id,            \* scrape_entries: the loop variable
    consecutive_misses,  \* scrape_entries: the miss counter
    visited,             \* history: the ids handed to extract_entry, in order
    start_id,            \* first id / row of the range
    finish_id,           \* last id / row of the range, or the string 'end'
    language,            \* 'en' or 'jp'
    entries,             \* the result list being accumulated
    export_format,       \* 'txt', 'html' or 'both'
    url,                 \* the URL handed to run_scraper
    scripts,             \* the record list returned by get_script_detail
    idx,                 \* fetch_entries_via_api: position in scripts
    kept,                \* history: the ids / the positions in scripts that gave an entry
    api,                 \* history: outcome of the API call
    requests,            \* history: number of network requests issued
    files,               \* the output files written so far
    entry_out,           \* extract_entry: the returned value
    attempt,             \* fetch_page: the loop variable
    slept,               \* history: the delays slept between attempts, in order
    responses,           \* history: the outcome of every network request, in order
    result               \* the value fetch_page / get_script_detail returned

vars == <<pc, text_in, text_out, page, soup, entry_id, consecutive_misses, visited,
          start_id, finish_id, language, entries, export_format, url,
          scripts, idx, kept, api, requests, files,
          entry_out, attempt, slept, responses, result>>

textVars == <<text_in, text_out>>
scanVars == <<page, soup, entry_id, consecutive_misses, visited>>
rangeVars == <<start_id, finish_id, language, entries, kept>>
runVars == <<export_format, url, scripts, idx, api, requests, files>>
callVars == <<entry_out, attempt, slept, responses, result>>

-----------------------------------------------------------------------------
(* Bounds of the model *)

\* longest input string given to process_text in SpecText
MaxLen == 4

\* largest id an element of the document carries in SpecScan
MaxId == 3

\* longest record list the API returns in SpecRun
MaxScripts == 2

-----------------------------------------------------------------------------
(* Strings *)

None == <<"<None>">>

\* every string (and None); the recursive definitions below are functions on
\* Str, so that an argument is a value when the definition is applied
Str == Seq(STRING)

\* the characters str.isspace() and the regular expression \s accept, among
\* those the model draws from (Python accepts further Unicode whitespace)
Whitespace == {" ", "\t", "\n", "\r", "\f"}

\* the alphabet of the strings process_text is checked on
TextChars == {"a", " ", "\t", "\n", "\r"}

Digits == {"0", "1", "2", "3", "4", "5", "6", "7", "8", "9"}

\* Python truthiness of an optional string: None and "" are false
Truthy(s) == s # None /\ s # <<>>

\* a or b, for optional strings
OrElse(a, b) == IF Truthy(a) THEN a ELSE b

\* text.replace('\r\n', ' ')
ReplaceCRLF[s \in Str] ==
    IF s = <<>> THEN <<>>
    ELSE IF Len(s) >= 2 /\ s[1] = "\r" /\ s[2] = "\n"
         THEN <<" ">> \o ReplaceCRLF[SubSeq(s, 3, Len(s))]
         ELSE <<s[1]>> \o ReplaceCRLF[Tail(s)]

\* text.replace('\n', ' ')
ReplaceLF[s \in Str] == [i \in 1..Len(s) |-> IF s[i] = "\n" THEN " " ELSE s[i]]

\* text.replace('\r', ' ')
ReplaceCR[s \in Str] == [i \in 1..Len(s) |-> IF s[i] = "\r" THEN " " ELSE s[i]]

\* re.sub(r'\s+', ' ', text): every maximal run of whitespace becomes one space
CollapseWhitespace[s \in Str] ==
    IF s = <<>> THEN <<>>
    ELSE IF s[1] \in Whitespace
         THEN IF Len(s) >= 2 /\ s[2] \in Whitespace
              THEN CollapseWhitespace[Tail(s)]
              ELSE <<" ">> \o CollapseWhitespace[Tail(s)]
         ELSE <<s[1]>> \o CollapseWhitespace[Tail(s)]

LStrip[s \in Str] ==
    IF s # <<>> /\ s[1] \in Whitespace THEN LStrip[Tail(s)] ELSE s

RStrip[s \in Str] ==
    IF s # <<>> /\ s[Len(s)] \in Whitespace
    THEN RStrip[SubSeq(s, 1, Len(s) - 1)]
    ELSE s

\* text.strip()
Strip(s) == RStrip[LStrip[s]]

\* process_text without the final strip (a faulty variant of process_text)
process_text_nostrip(text) ==
    IF ~Truthy(text) THEN <<>>
    ELSE CollapseWhitespace[ReplaceCR[ReplaceLF[ReplaceCRLF[text]]]]

\* process_text(text)
process_text(text) ==
    IF ~Truthy(text) THEN <<>>
    ELSE Strip(CollapseWhitespace[ReplaceCR[ReplaceLF[ReplaceCRLF[text]]]])

-----------------------------------------------------------------------------
(* More string operations *)

UpperLetters == <<"A", "B", "C", "D", "E", "F", "G", "H", "I", "J", "K", "L", "M",
                  "N", "O", "P", "Q", "R", "S", "T", "U", "V", "W", "X", "Y", "Z">>
LowerLetters == <<"a", "b", "c", "d", "e", "f", "g", "h", "i", "j", "k", "l", "m",
                  "n", "o", "p", "q", "r", "s", "t", "u", "v", "w", "x", "y", "z">>

LowerChar(c) ==
    IF \E i \in 1..Len(UpperLetters) : UpperLetters[i] = c
    THEN LowerLetters[CHOOSE i \in 1..Len(UpperLetters) : UpperLetters[i] = c]
    ELSE c

\* s.lower()
Lower(s) == [i \in 1..Len(s) |-> LowerChar(s[i])]

\* sub in s
Contains(s, sub) ==
    \E i \in 1..(Len(s) - Len(sub) + 1) : SubSeq(s, i, i + Len(sub) - 1) = sub

\* s.startswith(p)
StartsWith(s, p) == Len(p) <= Len(s) /\ SubSeq(s, 1, Len(p)) = p

\* ' '.join(parts)
JoinSpace[parts \in Seq(Str)] ==
    IF parts = <<>> THEN <<>>
    ELSE IF Len(parts) = 1 THEN parts[1]
    ELSE parts[1] \o <<" ">> \o JoinSpace[Tail(parts)]

\* ''.join(parts)
JoinEmpty[parts \in Seq(Str)] ==
    IF parts = <<>> THEN <<>> ELSE parts[1] \o JoinEmpty[Tail(parts)]

\* the longest prefix of s made of digits
DigitsPrefix[s \in Str] ==
    IF s # <<>> /\ s[1] \in Digits THEN <<s[1]>> \o DigitsPrefix[Tail(s)] ELSE <<>>

\* re.search(r'(\d+)', s).group(1), or None when nothing matches
FirstDigits[s \in Str] ==
    IF s = <<>> THEN None
    ELSE IF s[1] \in Digits THEN DigitsPrefix[s]
    ELSE FirstDigits[Tail(s)]

DigitValue(c) ==
    CHOOSE d \in 0..9 :
        <<"0", "1", "2", "3", "4", "5", "6", "7", "8", "9">>[d + 1] = c

\* int(s) for a string of decimal digits
StrToInt[s \in Str] ==
    IF s = <<>> THEN 0
    ELSE StrToInt[SubSeq(s, 1, Len(s) - 1)] * 10 + DigitValue(s[Len(s)])

\* s.isdigit()
IsDigit(s) == s # None /\ s # <<>> /\ \A i \in 1..Len(s) : s[i] \in Digits

Unknown == <<"U", "n", "k", "n", "o", "w", "n">>
EN == <<"e", "n">>
JP == <<"j", "p">>
EndWord == <<"e", "n", "d">>

\* isinstance(finish_id, str) and finish_id.lower() == 'end'
\* (a range end is [int |-> n] or [str |-> s])
IsStr(v) == DOMAIN v = {"str"}
IntOf(n) == [int |-> n]
StrOf(s) == [str |-> s]
scrape_until_end(finish) == IsStr(finish) /\ Lower(finish.str) = EndWord

-----------------------------------------------------------------------------
(* The parsed document (BeautifulSoup): each id is carried by no element,  *)
(* or by an element of a row; a row is a sequence of cells; a cell is a    *)
(* sequence of nodes; a node is an element with its tag, classes and       *)
(* text, or a bare string (tag "").                                        *)

Txt(s) == [tag |-> "", classes |-> <<>>, text |-> s]
El(tag, classes, s) == [tag |-> tag, classes |-> classes, text |-> s]

\* the strings below a sequence of nodes (an element without text has none)
Strings(nodes) ==
    LET NonEmpty(t) == t # <<>>
    IN  SelectSeq([i \in 1..Len(nodes) |-> nodes[i].text], NonEmpty)

\* tag.get_text(strip=True): every string stripped, the empty ones dropped
get_text_strip(nodes) ==
    LET NonEmpty(t) == t # <<>>
        strs == Strings(nodes)
    IN  JoinEmpty[SelectSeq([i \in 1..Len(strs) |-> Strip(strs[i])], NonEmpty)]

\* tag.get_text(separator=' ', strip=False)
get_text_sep(nodes) == JoinSpace[Strings(nodes)]

\* the nodes of a row, cell after cell
Flatten(cells) ==
    IF Len(cells) = 0 THEN <<>>
    ELSE LET cat[k \in 1..Len(cells)] ==
                 IF k = 1 THEN cells[1] ELSE cat[k - 1] \o cells[k]
         IN  cat[Len(cells)]

NameTags == {"span", "div", "strong", "b"}
BoldTags == {"strong", "b"}
BlockTags == {"div", "span", "p"}
NameWord == <<"n", "a", "m", "e">>
CharacterWord == <<"c", "h", "a", "r", "a", "c", "t", "e", "r">>
CharWord == <<"c", "h", "a", "r">>

\* class_=re.compile(r'name|character', re.I)
ClassMatchesName(node) ==
    \E i \in 1..Len(node.classes) :
        \/ Contains(Lower(node.classes[i]), NameWord)
        \/ Contains(Lower(node.classes[i]), CharacterWord)

\* any('name' in str(c).lower() or 'char' in str(c).lower() for c in classes)
ClassHasNameOrChar(node) ==
    \E i \in 1..Len(node.classes) :
        \/ Contains(Lower(node.classes[i]), NameWord)
        \/ Contains(Lower(node.classes[i]), CharWord)

NoEntry == <<>>

Nodes == [tag : STRING, classes : Seq(Str), text : Str]
Cells == Seq(Nodes)

\* the first name found by lines 155-167 of extract_entry: an element of the
\* text cell with a name/character class, else the first span, div, strong or
\* b of cell 0, else the first strong or b of the row, else "Unknown"
first_character_name(row, text_cell) ==
    LET IsNameEl(n) == n.tag \in NameTags /\ ClassMatchesName(n)
        IsNameTag(n) == n.tag \in NameTags
        IsBold(n) == n.tag \in BoldTags
        name_elements == SelectSeq(text_cell, IsNameEl)
        name_in_first == SelectSeq(row.cells[1], IsNameTag)
        bold_text == SelectSeq(Flatten(row.cells), IsBold)
    IN  IF name_elements = <<>>
        THEN IF name_in_first # <<>>
             THEN get_text_strip(<<name_in_first[1]>>)
             ELSE IF bold_text # <<>>
                  THEN get_text_strip(<<bold_text[1]>>)
                  ELSE Unknown
        ELSE get_text_strip(<<name_elements[1]>>)

\* lines 171-177 of extract_entry: while the name is "Unknown", the first div,
\* span or p of the text cell with a class containing 'name' or 'char'
class_character_name[character_name \in Str, text_cell \in Cells] ==
    LET IsClassed(n) == n.tag \in BlockTags /\ ClassHasNameOrChar(n)
        classed == SelectSeq(text_cell, IsClassed)
    IN  IF character_name = Unknown /\ classed # <<>>
        THEN get_text_strip(<<classed[1]>>)
        ELSE character_name

\* the character name of a row: lines 150-177 of extract_entry
character_name_of(row, text_cell) ==
    class_character_name[first_character_name(row, text_cell), text_cell]

\* lines 183-187 of extract_entry: the name is removed from the start of the
\* dialogue, and the text is normalised
dialogue_of[character_name \in Str, dialogue_text \in Str] ==
    process_text(
        IF character_name # Unknown /\ StartsWith(dialogue_text, character_name)
        THEN Strip(SubSeq(dialogue_text, Len(character_name) + 1,
                          Len(dialogue_text)))
        ELSE dialogue_text)

\* lines 189-192 of extract_entry, with the test for an empty text left out
entry_keep_empty[number \in Str, processed_text \in Str, character_name \in Str] ==
    <<number, processed_text, character_name>>

\* lines 189-192 of extract_entry: an empty text gives None
entry_or_none[number \in Str, processed_text \in Str, character_name \in Str] ==
    IF processed_text = <<>> THEN NoEntry
    ELSE <<number, processed_text, character_name>>

\* the character name and the dialogue text of a row
name_and_text[character_name \in Str, text_cell \in Cells] ==
    <<character_name, dialogue_of[character_name, get_text_sep(text_cell)]>>

\* extract_entry that returns the row even when its text is empty (a faulty variant)
extract_entry_keep_empty(doc, id, lang) ==
    IF id \notin DOMAIN doc.rows \/ ~doc.rows[id].elem THEN NoEntry
    ELSE LET row == doc.rows[id] IN
    IF ~row.tr \/ Len(row.cells) < 4 THEN NoEntry
    ELSE LET number == FirstDigits[get_text_strip(row.cells[1])] IN
    IF number = None THEN NoEntry
    ELSE LET text_cell == row.cells[IF lang = EN THEN 3 ELSE 4]
             nt == name_and_text[character_name_of(row, text_cell), text_cell]
         IN  entry_keep_empty[number, nt[2], nt[1]]

\* extract_entry(soup, entry_id, language): the entry, or NoEntry for None
extract_entry(doc, id, lang) ==
    IF id \notin DOMAIN doc.rows \/ ~doc.rows[id].elem THEN NoEntry
    ELSE LET row == doc.rows[id] IN
    IF ~row.tr \/ Len(row.cells) < 4 THEN NoEntry
    ELSE LET number == FirstDigits[get_text_strip(row.cells[1])] IN
    IF number = None THEN NoEntry
    ELSE LET text_cell == row.cells[IF lang = EN THEN 3 ELSE 4]
             nt == name_and_text[character_name_of(row, text_cell), text_cell]
         IN  entry_or_none[number, nt[2], nt[1]]

-----------------------------------------------------------------------------
(* Idle values of the variables a specification does not use *)

NoSoup == [found |-> FALSE, rows |-> <<>>]
NoUrl == [fname |-> None, game_id |-> None]

IdleText == text_in = None /\ text_out = None
IdleScan == page = NoSoup /\ soup = NoSoup /\ entry_id = 0 /\ consecutive_misses = 0
            /\ visited = <<>>
IdleRange == start_id = 0 /\ finish_id = StrOf(<<>>) /\ language = <<>>
             /\ entries = <<>> /\ kept = <<>>
IdleRun == export_format = <<>> /\ url = NoUrl
           /\ scripts = <<>> /\ idx = 0 /\ api = "none"
           /\ requests = 0 /\ files = {}
NoResult == [idle |-> TRUE]
IdleCall == entry_out = <<>> /\ attempt = 0 /\ slept = <<>> /\ responses = <<>>
            /\ result = NoResult

-----------------------------------------------------------------------------
(* SpecText: process_text on every string of at most MaxLen characters,    *)
(* and on None                                                             *)

StringsUpTo(n) == UNION {[1..k -> TextChars] : k \in 0..n}

InitText ==
    /\ pc = "process_text"
    /\ text_in \in StringsUpTo(MaxLen) \cup {None}
    /\ text_out = None
    /\ IdleScan /\ IdleRange /\ IdleRun /\ IdleCall

ProcessText ==
    /\ pc = "process_text"
    /\ text_out' = process_text(text_in)
    /\ pc' = "normalized"
    /\ UNCHANGED <<callVars, text_in, scanVars, rangeVars, runVars>>

NextText == ProcessText

SpecText == InitText /\ [][NextText]_vars

\* C10: process_text returns, for every input, a string with no newline,
\* carriage return or tab, no two adjacent spaces and no whitespace at either
\* end; the empty string and None give the empty string.
C10_Normalized ==
    pc = "normalized" =>
        /\ text_out \in Seq(TextChars)
        /\ \A i \in 1..Len(text_out) : text_out[i] \notin {"\n", "\r", "\t"}
        /\ \A i \in 1..(Len(text_out) - 1) :
               ~(text_out[i] = " " /\ text_out[i + 1] = " ")
        /\ text_out # <<>> =>
               text_out[1] \notin Whitespace
               /\ text_out[Len(text_out)] \notin Whitespace
        /\ text_in \in {None, <<>>} => text_out = <<>>

\* process_text has returned for an input with leading, inner and trailing
\* whitespace of several kinds
C10_Witness ==
    /\ pc = "normalized"
    /\ text_in = <<" ", "a", "\n", "\r">>
    /\ text_out = <<"a">>

-----------------------------------------------------------------------------
(* SpecScan: scrape_entries over a document of MaxId ids                   *)

\* max_consecutive_misses
max_consecutive_misses == 10

Row(number_text, en_cell, jp_cell) ==
    [elem |-> TRUE, tr |-> TRUE,
     cells |-> << <<Txt(number_text)>>, <<>>, en_cell, jp_cell >>]

\* no element carries the id
NoElem == [elem |-> FALSE, tr |-> FALSE, cells |-> <<>>]
\* rows with a dialogue in both languages, numbered 1 and 2
RowOne == Row(<<"1">>, <<Txt(<<"h", "i">>)>>, <<Txt(<<"y", "o">>)>>)
RowTwo == Row(<<"I", "D", ":", " ", "2">>,
              <<El("span", << <<"N", "a", "m", "e">> >>, <<"B", "o", "b">>),
                Txt(<<" ", "o", "h", "\n">>)>>,
              <<Txt(<<"e", "h">>)>>)
\* a row of three cells
RowShort == [elem |-> TRUE, tr |-> TRUE,
             cells |-> << <<Txt(<<"3">>)>>, <<>>, <<Txt(<<"h", "i">>)>> >>]
\* a row whose English text is blank and whose Japanese cell is empty
RowBlank == Row(<<"3">>, <<Txt(<<" ", "\n">>)>>, <<>>)

ScanRows == {NoElem, RowOne, RowTwo, RowShort, RowBlank}

Documents == {[found |-> TRUE, rows |-> r] : r \in [1..MaxId -> ScanRows]}

InitScan ==
    /\ pc = "call_scrape_entries"
    /\ IdleScan /\ IdleRange /\ IdleText /\ IdleRun /\ IdleCall

\* scrape_entries(base_url, start_id, finish_id, language) is called, for a
\* URL at which the server holds some document (lines 195-208)
CallScrapeEntries ==
    /\ pc = "call_scrape_entries"
    /\ page' \in Documents
    /\ start_id' \in 1..MaxId
    /\ finish_id' \in {IntOf(n) : n \in start_id'..(MaxId + 1)}
                      \cup {StrOf(<<"E", "N", "D">>)}
    /\ language' \in {EN, JP}
    /\ entries' = <<>>
    /\ kept' = <<>>
    /\ pc' = "scrape_entries"
    /\ UNCHANGED <<callVars, soup, entry_id, consecutive_misses, visited, textVars,
                   runVars>>

\* fetch_page returned the document: the scan starts (lines 211, 230-236, 255)
FetchPageOk ==
    /\ pc = "scrape_entries"
    /\ soup' = page
    /\ entry_id' = start_id
    /\ consecutive_misses' = 0
    /\ pc' = IF scrape_until_end(finish_id) THEN "open_loop" ELSE "bounded_loop"
    /\ UNCHANGED <<callVars, page, visited, rangeVars, textVars, runVars>>

\* fetch_page returned None: scrape_entries returns the empty list (226-227)
FetchPageFailed ==
    /\ pc = "scrape_entries"
    /\ soup' = NoSoup
    /\ pc' = "returned"
    /\ UNCHANGED <<callVars, page, entry_id, consecutive_misses, visited, rangeVars,
                   textVars, runVars>>

\* a faulty variant of OpenStep: the counter is not reset on a hit
OpenStepNoReset ==
    /\ pc = "open_loop"
    /\ consecutive_misses < max_consecutive_misses
    /\ LET entry == extract_entry(soup, entry_id, language) IN
       /\ entries' = IF entry # NoEntry THEN Append(entries, entry) ELSE entries
       /\ kept' = IF entry # NoEntry THEN Append(kept, entry_id) ELSE kept
       /\ consecutive_misses' =
              IF entry # NoEntry THEN consecutive_misses
              ELSE consecutive_misses + 1
    /\ visited' = Append(visited, entry_id)
    /\ entry_id' = entry_id + 1
    /\ UNCHANGED <<callVars, pc, page, soup, start_id, finish_id, language, textVars,
                   runVars>>

\* a faulty variant of OpenStep: the id is advanced after a hit only
OpenStepStuckOnMiss ==
    /\ pc = "open_loop"
    /\ consecutive_misses < max_consecutive_misses
    /\ LET entry == extract_entry(soup, entry_id, language) IN
       /\ entries' = IF entry # NoEntry THEN Append(entries, entry) ELSE entries
       /\ kept' = IF entry # NoEntry THEN Append(kept, entry_id) ELSE kept
       /\ consecutive_misses' =
              IF entry # NoEntry THEN 0 ELSE consecutive_misses + 1
       /\ entry_id' = IF entry # NoEntry THEN entry_id + 1 ELSE entry_id
    /\ visited' = Append(visited, entry_id)
    /\ UNCHANGED <<callVars, pc, page, soup, start_id, finish_id, language,
                   textVars, runVars>>

\* one iteration of the open-ended loop (lines 238-249)
OpenStep ==
    /\ pc = "open_loop"
    /\ consecutive_misses < max_consecutive_misses
    /\ LET entry == extract_entry(soup, entry_id, language) IN
       /\ entries' = IF entry # NoEntry THEN Append(entries, entry) ELSE entries
       /\ kept' = IF entry # NoEntry THEN Append(kept, entry_id) ELSE kept
       /\ consecutive_misses' =
              IF entry # NoEntry THEN 0 ELSE consecutive_misses + 1
    /\ visited' = Append(visited, entry_id)
    /\ entry_id' = entry_id + 1
    /\ UNCHANGED <<callVars, pc, page, soup, start_id, finish_id, language, textVars,
                   runVars>>

\* the open-ended loop ends and scrape_entries returns (lines 238, 251, 277)
OpenExit ==
    /\ pc = "open_loop"
    /\ ~(consecutive_misses < max_consecutive_misses)
    /\ pc' = "returned"
    /\ UNCHANGED <<callVars, scanVars, rangeVars, textVars, runVars>>

\* a faulty variant of BoundedStep: an entry is put at the front of the list
BoundedStepPrepend ==
    /\ pc = "bounded_loop"
    /\ entry_id <= finish_id.int
    /\ LET entry == extract_entry(soup, entry_id, language) IN
       /\ entries' = IF entry # NoEntry THEN <<entry>> \o entries ELSE entries
       /\ kept' = IF entry # NoEntry THEN Append(kept, entry_id) ELSE kept
    /\ visited' = Append(visited, entry_id)
    /\ entry_id' = entry_id + 1
    /\ UNCHANGED <<callVars, pc, page, soup, consecutive_misses, start_id, finish_id,
                   language, textVars, runVars>>

\* a faulty variant of BoundedStep: a miss ends the scan
BoundedStepStopOnMiss ==
    /\ pc = "bounded_loop"
    /\ entry_id <= finish_id.int
    /\ LET entry == extract_entry(soup, entry_id, language) IN
       /\ entries' = IF entry # NoEntry THEN Append(entries, entry) ELSE entries
       /\ kept' = IF entry # NoEntry THEN Append(kept, entry_id) ELSE kept
       /\ pc' = IF entry # NoEntry THEN pc ELSE "returned"
    /\ visited' = Append(visited, entry_id)
    /\ entry_id' = entry_id + 1
    /\ UNCHANGED <<callVars, page, soup, consecutive_misses, start_id, finish_id,
                   language, textVars, runVars>>

\* one iteration of the bounded loop (lines 255-275)
BoundedStep ==
    /\ pc = "bounded_loop"
    /\ entry_id <= finish_id.int
    /\ LET entry == extract_entry(soup, entry_id, language) IN
       /\ entries' = IF entry # NoEntry THEN Append(entries, entry) ELSE entries
       /\ kept' = IF entry # NoEntry THEN Append(kept, entry_id) ELSE kept
    /\ visited' = Append(visited, entry_id)
    /\ entry_id' = entry_id + 1
    /\ UNCHANGED <<callVars, pc, page, soup, consecutive_misses, start_id, finish_id,
                   language, textVars, runVars>>

\* range(start_id, finish_id + 1) is exhausted: scrape_entries returns (255, 277)
BoundedExit ==
    /\ pc = "bounded_loop"
    /\ ~(entry_id <= finish_id.int)
    /\ pc' = "returned"
    /\ UNCHANGED <<callVars, scanVars, rangeVars, textVars, runVars>>

NextScan ==
    \/ CallScrapeEntries
    \/ FetchPageOk
    \/ FetchPageFailed
    \/ OpenStep
    \/ OpenExit
    \/ BoundedStep
    \/ BoundedExit

SpecScan == InitScan /\ [][NextScan]_vars

\* scrape_entries runs to completion: a step that can be taken is taken
SpecScanFair == SpecScan /\ WF_vars(NextScan)

\* the ids lo..hi in ascending order
IdRange(lo, hi) == [i \in 1..(hi - lo + 1) |-> lo + i - 1]

Hit(id) == extract_entry(page, id, language) # NoEntry

\* the entries of the ids of a sequence that hit, in the order of the sequence
HitsAmong(ids) ==
    LET all == [i \in 1..Len(ids) |-> extract_entry(page, ids[i], language)]
        IsEntry(e) == e # NoEntry
    IN  SelectSeq(all, IsEntry)

\* the 10th id of the first run of 10 consecutive misses at or after start_id
\* (no id above MaxId hits, so the run that starts at MaxId + 1 is such a run)
TenMissesEndAt(n) ==
    \A k \in (n - max_consecutive_misses + 1)..n : ~Hit(k)
StopId ==
    CHOOSE n \in (start_id + max_consecutive_misses - 1)
                  ..(MaxId + max_consecutive_misses) :
        /\ TenMissesEndAt(n)
        /\ \A m \in (start_id + max_consecutive_misses - 1)..(n - 1) :
               ~TenMissesEndAt(m)

OpenScanFetched == scrape_until_end(finish_id) /\ soup.found
BoundedScanFetched == ~scrape_until_end(finish_id) /\ soup.found

\* C1: an open-ended scan of a fetched document terminates; it has then
\* visited exactly the ids from start_id to the 10th id of the first run of
\* 10 consecutive misses, and returns the entries of the visited ids that
\* hit, in the order visited.
C1_OpenScanTerminates ==
    /\ (pc = "open_loop") ~> (pc = "returned")
    /\ [](pc = "returned" /\ OpenScanFetched =>
              /\ visited = IdRange(start_id, StopId)
              /\ entries = HitsAmong(visited))

\* an open-ended scan from id 1 has returned after a hit, a miss and a hit:
\* the miss at id 2 did not end it, the ten misses MaxId+1..MaxId+10 did
C1_Witness ==
    /\ pc = "returned" /\ OpenScanFetched
    /\ start_id = 1
    /\ Hit(1) /\ ~Hit(2) /\ Hit(3)
    /\ Len(entries) >= 2
    /\ visited[Len(visited)] = MaxId + max_consecutive_misses

\* C2: a bounded scan of a fetched document hands every id from start_id to
\* finish_id to the extractor exactly once, in ascending order, whether ids
\* miss or not, and returns one entry per id that hit, in visiting order.
C2_BoundedScan ==
    /\ pc = "bounded_loop" =>
           /\ visited = IdRange(start_id, entry_id - 1)
           /\ entries = HitsAmong(visited)
    /\ pc = "returned" /\ BoundedScanFetched =>
           /\ visited = IdRange(start_id, finish_id.int)
           /\ entries = HitsAmong(visited)
           /\ start_id = finish_id.int /\ Hit(start_id) => Len(entries) = 1

\* a bounded scan has returned after a miss at its first id and a hit later
C2_Witness ==
    /\ pc = "returned" /\ BoundedScanFetched
    /\ finish_id.int > start_id
    /\ ~Hit(start_id) /\ Hit(finish_id.int)
    /\ Len(entries) >= 1

-----------------------------------------------------------------------------
(* SpecRun: main, get_interactive_inputs, run_scraper,                     *)
(* fetch_entries_via_api and the exporters                                 *)

\* the default of the 'Start ID' prompt and the value of an empty answer
DefaultStart == 1
\* the default of the 'Finish ID' prompt and the value of an empty answer
DefaultFinish == 250

TXT == <<"t", "x", "t">>
HTML == <<"h", "t", "m", "l">>
BOTH == <<"b", "o", "t", "h">>

\* int(s) for a string: surrounding whitespace and one sign are accepted
IsIntLiteral(s) ==
    LET t == Strip(s)
        body == IF t # <<>> /\ t[1] \in {"-", "+"} THEN Tail(t) ELSE t
    IN  IsDigit(body)
IntLiteral(s) ==
    LET t == Strip(s)
    IN  IF t[1] = "-" THEN 0 - StrToInt[Tail(t)]
        ELSE IF t[1] = "+" THEN StrToInt[Tail(t)]
        ELSE StrToInt[t]

\* a URL is modelled by the query parameters urlparse and parse_qs find in it
\* (parse_qs leaves out a parameter whose value is blank)
Urls == {[fname |-> <<"t", "1">>, game_id |-> <<"6">>],
         [fname |-> None, game_id |-> <<"6">>],
         [fname |-> <<"t", "1">>, game_id |-> None],
         [fname |-> <<"t", "1">>, game_id |-> <<"x">>]}

\* parse_game_and_fname_from_url: ok is FALSE where it raises ValueError
parse_game_and_fname_from_url(u) ==
    IF ~Truthy(u.fname) THEN [ok |-> FALSE, game_id |-> 0, fname |-> <<>>]
    ELSE IF ~Truthy(u.game_id) THEN [ok |-> FALSE, game_id |-> 0, fname |-> <<>>]
    ELSE IF ~IsIntLiteral(u.game_id)
         THEN [ok |-> FALSE, game_id |-> 0, fname |-> <<>>]
    ELSE [ok |-> TRUE, game_id |-> IntLiteral(u.game_id), fname |-> u.fname]

\* extract_fname_from_url
extract_fname_from_url(u) ==
    IF u.fname = None THEN <<"o", "u", "t", "p", "u", "t">> ELSE u.fname

(* main, non-interactive: the command line *)

\* the values argparse can hand over for url, start and finish
ArgUrls == Urls \cup {NoUrl}
ArgStarts == {[given |-> FALSE, int |-> 0]}
             \cup {[given |-> TRUE, int |-> n] : n \in {0, 1, 2, 300}}
ArgFinishes == {None, <<"e", "n", "d">>, <<"E", "N", "D">>, <<"1">>, <<"2">>,
                <<"0">>, <<"-", "1">>, <<"a", "b", "c">>}
Languages == {EN, JP}
Formats == {TXT, HTML, BOTH}

\* get_interactive_inputs returned or main validated the command line:
\* run_scraper is called
CallRunScraper(u, start, finish, lang, fmt) ==
    /\ url' = u
    /\ start_id' = start
    /\ finish_id' = finish
    /\ language' = lang
    /\ export_format' = fmt
    /\ pc' = "run_scraper"

Exit(code) ==
    /\ pc' = code
    /\ UNCHANGED <<callVars, url, start_id, finish_id, language, export_format>>

\* main with --non-interactive (lines 709-736)
MainNonInteractive ==
    /\ pc = "main"
    /\ \E u \in ArgUrls, st \in ArgStarts, fin \in ArgFinishes,
          lang \in Languages, fmt \in Formats :
          IF u = NoUrl \/ ~st.given \/ ~Truthy(fin)
          THEN Exit("exit_2")
          ELSE IF st.int < 1 THEN Exit("exit_1")
          ELSE IF Lower(fin) = EndWord
               THEN CallRunScraper(u, st.int, StrOf(EndWord), lang, fmt)
          ELSE IF ~IsIntLiteral(fin) THEN Exit("exit_1")
          ELSE IF IntLiteral(fin) < st.int THEN Exit("exit_1")
          ELSE IF IntLiteral(fin) < 1 THEN Exit("exit_1")
          ELSE CallRunScraper(u, st.int, IntOf(IntLiteral(fin)), lang, fmt)
    /\ UNCHANGED <<callVars, entries, scripts, idx, kept, api, requests, files,
                   textVars, scanVars>>

(* main, interactive: get_interactive_inputs, prompt by prompt *)

\* main without --non-interactive (lines 703-705)
MainInteractive ==
    /\ pc = "main"
    /\ pc' = "prompt_url"
    /\ UNCHANGED <<callVars, rangeVars, runVars, textVars, scanVars>>

\* the URL prompt (lines 558-563); URLValidator accepts any http(s) URL
PromptUrl ==
    /\ pc = "prompt_url"
    /\ url' \in Urls
    /\ pc' = "prompt_start"
    /\ UNCHANGED <<callVars, rangeVars, export_format, scripts, idx, api,
                   requests, files, textVars, scanVars>>

\* what NumberValidator lets through: nothing, or digits
StartInputs == {<<>>, <<"0">>, <<"1">>, <<"2">>, <<"3", "0", "0">>}

\* the Start ID prompt (lines 566-575)
PromptStart ==
    /\ pc = "prompt_start"
    /\ \E start_input \in {Strip(t) : t \in StartInputs} :
          LET start == IF start_input # <<>> THEN StrToInt[start_input]
                       ELSE DefaultStart
          IN  /\ start_id' = start
              /\ pc' = IF start < 1 THEN "exit_1" ELSE "prompt_finish"
    /\ UNCHANGED <<callVars, finish_id, language, entries, kept, runVars, textVars,
                   scanVars>>

\* what FinishIDValidator lets through: nothing, 'end' in any case, or digits
FinishInputs == {<<>>, <<"e", "n", "d">>, <<"E", "n", "d">>, <<"0">>, <<"1">>,
                 <<"2">>, <<"2", "5", "0">>}

\* the Finish ID prompt (lines 578-596)
PromptFinish ==
    /\ pc = "prompt_finish"
    /\ \E finish_input \in {Lower(Strip(t)) : t \in FinishInputs} :
          IF finish_input = EndWord
          THEN finish_id' = StrOf(EndWord) /\ pc' = "prompt_language"
          ELSE IF finish_input = <<>>
          THEN finish_id' = IntOf(DefaultFinish) /\ pc' = "prompt_language"
          ELSE /\ finish_id' = IntOf(StrToInt[finish_input])
               /\ pc' = IF StrToInt[finish_input] < start_id THEN "exit_1"
                        ELSE IF StrToInt[finish_input] < 1 THEN "exit_1"
                        ELSE "prompt_language"
    /\ UNCHANGED <<callVars, start_id, language, entries, kept, runVars, textVars,
                   scanVars>>

LanguageInputs == {<<"1">>, <<"2">>, <<"J", "P">>, <<>>}

\* the language prompt (lines 602-610)
PromptLanguage ==
    /\ pc = "prompt_language"
    /\ \E lang_input \in {Strip(t) : t \in LanguageInputs} :
          language' = IF lang_input = <<"2">>
                         \/ Lower(lang_input) \in
                                {JP, <<"j", "a", "p", "a", "n", "e", "s", "e">>}
                      THEN JP ELSE EN
    /\ pc' = "prompt_format"
    /\ UNCHANGED <<callVars, start_id, finish_id, entries, kept, runVars, textVars,
                   scanVars>>

FormatInputs == {<<"1">>, <<"2">>, <<"3">>, <<>>}

\* the export format prompt, and the call of run_scraper (lines 617-631, 706)
PromptFormat ==
    /\ pc = "prompt_format"
    /\ \E format_input \in {Strip(t) : t \in FormatInputs} :
          export_format' = IF format_input = <<"1">> THEN TXT
                           ELSE IF format_input = <<"2">> THEN HTML
                           ELSE BOTH
    /\ pc' = "run_scraper"
    /\ UNCHANGED <<callVars, rangeVars, url, scripts, idx, api, requests, files,
                   textVars, scanVars>>


(* The records of the API (StructuredRecord): a dict is a record whose      *)
(* absent keys hold None; row is absent, a JSON number or a JSON string.    *)

NoRow == [kind |-> "none", int |-> 0, str |-> <<>>]
IntRow(n) == [kind |-> "int", int |-> n, str |-> <<>>]
StrRow(s) == [kind |-> "str", int |-> 0, str |-> s]

Script(row, eh, es, en, jh, js, jn) ==
    [row |-> row, engHtmlText |-> eh, engSearchText |-> es, engChrName |-> en,
     jpnHtmlText |-> jh, jpnSearchText |-> js, jpnChrName |-> jn]

Kara == <<"K", "a", "r", "a">>
HiBrThere == <<"H", "i", "<", "b", "r", ">", "t", "h", "e", "r", "e">>
HiThere == <<"H", "i", " ", "t", "h", "e", "r", "e">>

ApiRecords ==
    { \* the record of the specification's example, in both languages
      Script(IntRow(3), HiBrThere, None, Kara,
             <<"y", "o", "\n", "<", "B", "R", " ", "/", ">", "!">>, <<"x">>,
             <<"K">>),
      \* a row given as a string; the HTML text is empty, the name is empty
      Script(StrRow(<<" ", "2">>), <<>>, <<"a", "\r", "\n", "b">>, <<>>,
             None, None, None),
      \* the same row again, with English text only in the search text
      Script(IntRow(2), None, <<"o", "k">>, None, <<"j">>, None, None),
      \* texts that are blank once normalised
      Script(IntRow(1), <<"<", "b", "r", "/", ">", " ">>, <<"s">>, Kara,
             <<" ">>, <<"s">>, <<"K">>),
      \* a row that is no number, and an absent row
      Script(StrRow(<<"x">>), <<"h", "i">>, None, Kara, <<"y", "o">>, None, <<"K">>),
      Script(NoRow, <<"h", "i">>, None, Kara, <<"y", "o">>, None, <<"K">>) }

ScriptLists == UNION {[1..n -> ApiRecords] : n \in 0..MaxScripts}

\* the length of the match of <br\s*/?> (ignoring case) at the start of s, or 0
BrMatch[s \in Str] ==
    IF Len(s) >= 4 /\ s[1] = "<" /\ LowerChar(s[2]) = "b" /\ LowerChar(s[3]) = "r"
    THEN LET spaces == Len(SubSeq(s, 4, Len(s)))
                       - Len(LStrip[SubSeq(s, 4, Len(s))])
             slash == IF 4 + spaces <= Len(s) /\ s[4 + spaces] = "/" THEN 1 ELSE 0
             close == 4 + spaces + slash
         IN  IF close <= Len(s) /\ s[close] = ">" THEN close ELSE 0
    ELSE 0

\* re.sub(r"<br\s*/?>", " ", raw_text, flags=re.IGNORECASE)
BrToSpace[s \in Str] ==
    IF s = <<>> THEN <<>>
    ELSE IF BrMatch[s] > 0
         THEN <<" ">> \o BrToSpace[SubSeq(s, BrMatch[s] + 1, Len(s))]
         ELSE <<s[1]>> \o BrToSpace[Tail(s)]

\* int(row_value): ok is FALSE where it raises TypeError or ValueError
row_num_of(row) ==
    IF row.kind = "int" THEN [ok |-> TRUE, int |-> row.int]
    ELSE IF row.kind = "str" /\ IsIntLiteral(row.str)
         THEN [ok |-> TRUE, int |-> IntLiteral(row.str)]
    ELSE [ok |-> FALSE, int |-> 0]

\* lines 452-457 with the languages' fields exchanged (a faulty variant)
select_fields_swapped(script, lang) ==
    IF lang # JP
    THEN [raw_text |-> OrElse(OrElse(script.jpnHtmlText, script.jpnSearchText), <<>>),
          character_name |-> OrElse(script.jpnChrName, Unknown)]
    ELSE [raw_text |-> OrElse(OrElse(script.engHtmlText, script.engSearchText), <<>>),
          character_name |-> OrElse(script.engChrName, Unknown)]

\* lines 452-457 of fetch_entries_via_api: the text and the name of a record
select_fields(script, lang) ==
    IF lang = JP
    THEN [raw_text |-> OrElse(OrElse(script.jpnHtmlText, script.jpnSearchText), <<>>),
          character_name |-> OrElse(script.jpnChrName, Unknown)]
    ELSE [raw_text |-> OrElse(OrElse(script.engHtmlText, script.engSearchText), <<>>),
          character_name |-> OrElse(script.engChrName, Unknown)]

\* lines 459-463: the normalised text of the selected raw text
api_processed_text[raw_text \in Str] ==
    process_text(IF raw_text # <<>> THEN BrToSpace[raw_text] ELSE raw_text)

\* the body of the loop of fetch_entries_via_api (lines 438-467) with the
\* comparison against start_id reversed (a faulty variant)
map_script_below_start(script, start, finish, lang) ==
    LET row_num == row_num_of(script.row)
        processed_text == api_processed_text[select_fields(script, lang).raw_text]
    IN  IF script.row.kind = "none" THEN NoEntry
        ELSE IF ~row_num.ok THEN NoEntry
        ELSE IF row_num.int > start THEN NoEntry
        ELSE IF ~scrape_until_end(finish) /\ row_num.int > finish.int THEN NoEntry
        ELSE IF processed_text = <<>> THEN NoEntry
        ELSE <<row_num.int, processed_text,
               select_fields(script, lang).character_name>>

\* the body of the loop of fetch_entries_via_api with start_id in the place of
\* the row as the number of the entry (a faulty variant)
map_script_number_start(script, start, finish, lang) ==
    LET row_num == row_num_of(script.row)
        processed_text == api_processed_text[select_fields(script, lang).raw_text]
    IN  IF script.row.kind = "none" THEN NoEntry
        ELSE IF ~row_num.ok THEN NoEntry
        ELSE IF row_num.int < start THEN NoEntry
        ELSE IF ~scrape_until_end(finish) /\ row_num.int > finish.int THEN NoEntry
        ELSE IF processed_text = <<>> THEN NoEntry
        ELSE <<start, processed_text,
               select_fields(script, lang).character_name>>

\* the body of the loop of fetch_entries_via_api (lines 438-467): the entry
\* appended for a record, or NoEntry where the loop continues
map_script(script, start, finish, lang) ==
    LET row_num == row_num_of(script.row)
        processed_text == api_processed_text[select_fields(script, lang).raw_text]
    IN  IF script.row.kind = "none" THEN NoEntry
        ELSE IF ~row_num.ok THEN NoEntry
        ELSE IF row_num.int < start THEN NoEntry
        ELSE IF ~scrape_until_end(finish) /\ row_num.int > finish.int THEN NoEntry
        ELSE IF processed_text = <<>> THEN NoEntry
        ELSE <<row_num.int, processed_text,
               select_fields(script, lang).character_name>>

(* run_scraper and fetch_entries_via_api *)

InitRun ==
    /\ pc = "main"
    /\ IdleRun /\ IdleRange /\ IdleText /\ IdleScan /\ IdleCall

\* run_scraper calls fetch_entries_via_api, which parses the URL (lines
\* 646-649, 416-420)
ParseUrl ==
    /\ pc = "run_scraper"
    /\ pc' = IF parse_game_and_fname_from_url(url).ok THEN "get_script_detail"
             ELSE "exit_1"
    /\ UNCHANGED <<callVars, rangeVars, runVars, textVars, scanVars>>

\* get_script_detail raises TrailsDbApiError: the request failed, the status
\* is an error, the body is no JSON or no list (lines 422-426; client 60-78)
ApiError ==
    /\ pc = "get_script_detail"
    /\ requests' = requests + 1
    /\ api' = "error"
    /\ pc' = "exit_1"
    /\ UNCHANGED <<callVars, rangeVars, export_format, url, scripts, idx, files,
                   textVars, scanVars>>

\* get_script_detail returns a list of records (lines 422-435)
ApiReturns ==
    /\ pc = "get_script_detail"
    /\ requests' = requests + 1
    /\ api' = "ok"
    /\ scripts' \in ScriptLists
    /\ idx' = 1
    /\ entries' = <<>>
    /\ kept' = <<>>
    /\ pc' = IF scripts' = <<>> THEN "exit_1" ELSE "api_loop"
    /\ UNCHANGED <<callVars, start_id, finish_id, language, export_format, url, files,
                   textVars, scanVars>>

\* one record of the loop of fetch_entries_via_api (lines 437-467)
ApiLoopStep ==
    /\ pc = "api_loop"
    /\ idx <= Len(scripts)
    /\ LET entry == map_script(scripts[idx], start_id, finish_id, language) IN
       /\ entries' = IF entry # NoEntry THEN Append(entries, entry) ELSE entries
       /\ kept' = IF entry # NoEntry THEN Append(kept, idx) ELSE kept
    /\ idx' = idx + 1
    /\ UNCHANGED <<callVars, pc, start_id, finish_id, language, export_format, url,
                   scripts, api, requests, files, textVars, scanVars>>

\* a faulty variant of ApiReturned: an empty list goes on to the exporters
ApiReturnedNoCheck ==
    /\ pc = "api_loop"
    /\ idx > Len(scripts)
    /\ pc' = "export_txt"
    /\ UNCHANGED <<callVars, rangeVars, runVars, textVars, scanVars>>

\* fetch_entries_via_api returns; run_scraper exits when the list is empty
\* (lines 469, 651-660)
ApiReturned ==
    /\ pc = "api_loop"
    /\ idx > Len(scripts)
    /\ pc' = IF entries = <<>> THEN "exit_1" ELSE "export_txt"
    /\ UNCHANGED <<callVars, rangeVars, runVars, textVars, scanVars>>

\* base_filename of run_scraper (lines 656-660)
base_filename ==
    <<extract_fname_from_url(url), start_id,
      IF scrape_until_end(finish_id) THEN StrOf(EndWord) ELSE finish_id,
      IF language = EN THEN EN ELSE JP>>

\* lines 663-665 of run_scraper: export_txt writes the .txt file
ExportTxt ==
    /\ pc = "export_txt"
    /\ files' = IF export_format \in {TXT, BOTH}
                THEN files \cup {[name |-> base_filename, ext |-> TXT,
                                  entries |-> entries]}
                ELSE files
    /\ pc' = "export_html"
    /\ UNCHANGED <<callVars, rangeVars, export_format, url, scripts, idx, api,
                   requests, textVars, scanVars>>

\* lines 667-671 of run_scraper: export_html writes the .html file
ExportHtml ==
    /\ pc = "export_html"
    /\ files' = IF export_format \in {HTML, BOTH}
                THEN files \cup {[name |-> base_filename, ext |-> HTML,
                                  entries |-> entries]}
                ELSE files
    /\ pc' = "done"
    /\ UNCHANGED <<callVars, rangeVars, export_format, url, scripts, idx, api,
                   requests, textVars, scanVars>>

NextRun ==
    \/ MainNonInteractive
    \/ MainInteractive
    \/ PromptUrl
    \/ PromptStart
    \/ PromptFinish
    \/ PromptLanguage
    \/ PromptFormat
    \/ ParseUrl
    \/ ApiError
    \/ ApiReturns
    \/ ApiLoopStep
    \/ ApiReturned
    \/ ExportTxt
    \/ ExportHtml

SpecRun == InitRun /\ [][NextRun]_vars

-----------------------------------------------------------------------------
(* SpecExtract: extract_entry on a row whose cells are drawn from          *)
(* catalogues of number cells, icon cells and text cells                   *)

\* cell 0: the number alone, followed by a bold name, followed by a span
\* whose text is the word Unknown
NumberCells ==
    {<<Txt(<<"7">>)>>,
     <<Txt(<<"7">>), El("b", <<>>, <<"A", "l">>)>>,
     <<Txt(<<"7">>), El("span", <<>>, <<"U", "n", "k", "n", "o", "w", "n">>)>>}

\* cell 1: empty, or holding a strong element
IconCells == {<<>>, <<El("strong", <<>>, <<"C", "y">>)>>}

\* the cell of the other language: empty, or holding a bold element
OtherCells == {<<>>, <<El("b", <<>>, <<"Z", "e", "d">>)>>}

\* text cells: plain text; a classed name before the dialogue; a classed name
\* the dialogue repeats; a classed p; a classed p before a span named
\* Unknown; a span named Unknown; a name with spaces around it; a dialogue
\* that begins with the name cell 0 shows; a name alone; an unclassed strong
TextPlain == <<Txt(<<"h", "i">>)>>
TextBobSays ==
    <<El("span", << <<"n", "a", "m", "e">> >>, <<"B", "o", "b">>),
     Txt(<<"s", "a", "y", "s", " ", "h", "i">>)>>
TextBobTwice ==
    <<El("b", << <<"C", "h", "a", "r", "a", "c", "t", "e", "r">> >>, <<"B", "o", "b">>),
     Txt(<<"B", "o", "b", " ", "h", "i">>)>>
TextClassedP ==
    <<El("p", << <<"n", "i", "c", "k", "n", "a", "m", "e">> >>, <<"D", "e", "e">>),
     Txt(<<"y", "o">>)>>
TextPBeforeUnknown ==
    <<El("p", << <<"c", "h", "a", "r">> >>, <<"E", "v", "e">>),
     El("span", << <<"N", "a", "m", "e">> >>, <<"U", "n", "k", "n", "o", "w", "n">>),
     Txt(<<"h", "i">>)>>
TextNamedUnknown ==
    <<El("span", << <<"n", "a", "m", "e">> >>, <<"U", "n", "k", "n", "o", "w", "n">>),
     Txt(<<":", " ", "h", "i">>)>>
TextSpacedName ==
    <<El("span", << <<"n", "a", "m", "e">> >>, <<" ", "B", "o", "b", " ">>),
     Txt(<<"h", "i">>)>>
TextAlWent == <<Txt(<<"A", "l", " ", "w", "e", "n", "t">>)>>
TextNameOnly == <<El("span", << <<"n", "a", "m", "e">> >>, <<"B", "o", "b">>)>>
TextStrong == <<Txt(<<"C", "y">>), El("strong", <<>>, <<"D", "i">>)>>

TextCells == {TextPlain, TextBobSays, TextBobTwice, TextClassedP,
              TextPBeforeUnknown, TextNamedUnknown, TextSpacedName,
              TextAlWent, TextNameOnly, TextStrong}

\* the rows of four cells whose text cell of language lang is text_cell
ExtractRows(lang) ==
    {[elem |-> TRUE, tr |-> TRUE,
      cells |-> IF lang = EN THEN <<n, i, t, o>> ELSE <<n, i, o, t>>] :
         n \in NumberCells, i \in IconCells, t \in TextCells, o \in OtherCells}

\* ids handed to extract_entry: id 1 is carried by the row, id 2 by nothing
ExtractIds == 1..2

InitExtract ==
    /\ pc = "extract_entry"
    /\ language \in {EN, JP}
    /\ \E row \in ExtractRows(language) :
           /\ page = [found |-> TRUE, rows |-> <<row>>]
           /\ soup = page
    /\ entry_id \in ExtractIds
    /\ consecutive_misses = 0 /\ visited = <<>>
    /\ start_id = 0 /\ finish_id = StrOf(<<>>) /\ entries = <<>> /\ kept = <<>>
    /\ IdleText /\ IdleRun /\ IdleCall

\* extract_entry(soup, entry_id, language) returns
ExtractEntry ==
    /\ pc = "extract_entry"
    /\ entry_out' = extract_entry(soup, entry_id, language)
    /\ pc' = "extracted"
    /\ UNCHANGED <<attempt, slept, responses, result, scanVars, rangeVars,
                   textVars, runVars>>

NextExtract == ExtractEntry

SpecExtract == InitExtract /\ [][NextExtract]_vars

-----------------------------------------------------------------------------
(* SpecFetch: the two network retrievals, fetch_page and                   *)
(* get_script_detail, request by request                                   *)

\* fetch_page(url, retries=3, delay=1)
retries == 3
delay == 1

\* requests.exceptions.RequestException, as requests.get raises it or as
\* response.raise_for_status() raises it for an HTTP error status
RequestExceptions == {"ConnectionError", "Timeout", "HTTPError"}

\* what makes get_script_detail raise TrailsDbApiError: the request fails,
\* the status is not ok, the body is not JSON, the JSON is not a list
ApiFailures == {"RequestException", "not ok", "not JSON", "not a list"}

\* outcomes of a request, and values returned
Failure(kind) == [error |-> kind]
Document(doc) == [document |-> doc]
Json(list) == [json |-> list]
ReturnedNone == [returned |-> "None"]
ReturnedSoup(doc) == [soup |-> doc]
ReturnedList(list) == [scripts |-> list]
RaisedApiError == [raised |-> "TrailsDbApiError"]

InitFetch ==
    /\ pc = "call_fetch"
    /\ IdleText /\ IdleScan /\ IdleRange /\ IdleRun /\ IdleCall

\* fetch_page(url) is called (lines 33-47)
CallFetchPage ==
    /\ pc = "call_fetch"
    /\ attempt' = 0
    /\ pc' = "fetch_page"
    /\ UNCHANGED <<entry_out, slept, responses, result, textVars, scanVars,
                   rangeVars, runVars>>

\* an attempt succeeds: the parsed document is returned (lines 49-53)
FetchAttemptOk ==
    /\ pc = "fetch_page"
    /\ attempt < retries
    /\ \E doc \in Documents :
           /\ responses' = Append(responses, Document(doc))
           /\ result' = ReturnedSoup(doc)
    /\ pc' = "fetch_page_returned"
    /\ UNCHANGED <<entry_out, attempt, slept, textVars, scanVars, rangeVars,
                   runVars>>

\* a faulty variant of FetchAttemptRetry: the next attempt follows at once
FetchAttemptRetryNoSleep ==
    /\ pc = "fetch_page"
    /\ attempt < retries
    /\ attempt < retries - 1
    /\ \E e \in RequestExceptions :
           responses' = Append(responses, Failure(e))
    /\ attempt' = attempt + 1
    /\ UNCHANGED <<pc, entry_out, slept, result, textVars, scanVars, rangeVars,
                   runVars>>

\* an attempt before the last fails: sleep, then the next attempt
\* (lines 49-57)
FetchAttemptRetry ==
    /\ pc = "fetch_page"
    /\ attempt < retries
    /\ attempt < retries - 1
    /\ \E e \in RequestExceptions :
           responses' = Append(responses, Failure(e))
    /\ slept' = Append(slept, delay)
    /\ attempt' = attempt + 1
    /\ UNCHANGED <<pc, entry_out, result, textVars, scanVars, rangeVars,
                   runVars>>

\* the last attempt fails: None is returned (lines 49-51, 54-55, 58-60)
FetchAttemptLast ==
    /\ pc = "fetch_page"
    /\ attempt < retries
    /\ ~(attempt < retries - 1)
    /\ \E e \in RequestExceptions :
           responses' = Append(responses, Failure(e))
    /\ result' = ReturnedNone
    /\ pc' = "fetch_page_returned"
    /\ UNCHANGED <<entry_out, attempt, slept, textVars, scanVars, rangeVars,
                   runVars>>

\* get_script_detail(game_id, fname) is called (trailsdb_api.py, lines 33-58)
CallGetScriptDetail ==
    /\ pc = "call_fetch"
    /\ pc' = "requests_get"
    /\ UNCHANGED <<callVars, textVars, scanVars, rangeVars, runVars>>

\* the request gives a JSON list, which is returned (lines 60-80)
ApiRequestOk ==
    /\ pc = "requests_get"
    /\ \E list \in ScriptLists :
           /\ responses' = Append(responses, Json(list))
           /\ result' = ReturnedList(list)
    /\ pc' = "get_script_detail_returned"
    /\ UNCHANGED <<entry_out, attempt, slept, textVars, scanVars, rangeVars,
                   runVars>>

\* the request fails or its response is unusable: TrailsDbApiError is raised
\* (lines 60-78)
ApiRequestFails ==
    /\ pc = "requests_get"
    /\ \E e \in ApiFailures :
           responses' = Append(responses, Failure(e))
    /\ result' = RaisedApiError
    /\ pc' = "get_script_detail_raised"
    /\ UNCHANGED <<entry_out, attempt, slept, textVars, scanVars, rangeVars,
                   runVars>>

NextFetch ==
    \/ CallFetchPage
    \/ FetchAttemptOk
    \/ FetchAttemptRetry
    \/ FetchAttemptLast
    \/ CallGetScriptDetail
    \/ ApiRequestOk
    \/ ApiRequestFails

SpecFetch == InitFetch /\ [][NextFetch]_vars

-----------------------------------------------------------------------------
(* Spec: the program entered at any of its entry points                    *)

Init == InitText \/ InitScan \/ InitRun \/ InitExtract \/ InitFetch

Next == NextText \/ NextScan \/ NextRun \/ NextExtract \/ NextFetch

Spec == Init /\ [][Next]_vars

-----------------------------------------------------------------------------
(* Properties of fetch_entries_via_api and run_scraper (SpecRun)           *)

\* fetch_entries_via_api has the record list and is in or past its loop
ApiListed ==
    \/ pc \in {"api_loop", "export_txt", "export_html", "done"}
    \/ pc = "exit_1" /\ api = "ok" /\ scripts # <<>>

StrictlyIncreasing(seq) ==
    \A k \in 1..(Len(seq) - 1) : seq[k] < seq[k + 1]

\* the text of a record, normalised, in the language of the run
NormalizedText(r) == api_processed_text[select_fields(r, language).raw_text]

\* a record the claim lets through: its row is present and converts to an
\* integer, lies in the range, and its normalised text is not empty
Qualifies(r) ==
    /\ r.row.kind # "none"
    /\ row_num_of(r.row).ok
    /\ row_num_of(r.row).int >= start_id
    /\ ~scrape_until_end(finish_id) => row_num_of(r.row).int <= finish_id.int
    /\ NormalizedText(r) # <<>>

\* C3: the list of fetch_entries_via_api holds, in the order of the source,
\* exactly one entry per record whose row is present and converts to an
\* integer that is >= start and, in a bounded range, <= end, and whose
\* normalised text is not empty; an open-ended range has no upper filter.
C3_ApiFilter ==
    ApiListed =>
        /\ StrictlyIncreasing(kept)
        /\ \A i \in 1..(idx - 1) :
               Qualifies(scripts[i]) <=> \E k \in 1..Len(kept) : kept[k] = i
        /\ Len(entries) = Len(kept)
        /\ \A k \in 1..Len(kept) :
               entries[k] = <<row_num_of(scripts[kept[k]].row).int,
                              NormalizedText(scripts[kept[k]]),
                              select_fields(scripts[kept[k]], language)
                                  .character_name>>

\* an open-ended run has filtered a list of two records in which the first is
\* below start and the second, a row given as a string, is kept
C3_Witness ==
    /\ pc = "export_txt"
    /\ scrape_until_end(finish_id) /\ start_id = 2 /\ language = EN
    /\ Len(scripts) = 2
    /\ scripts[1].row = IntRow(1)
    /\ scripts[2].row = StrRow(<<" ", "2">>)
    /\ kept = <<2>>
    /\ entries = << <<2, <<"a", " ", "b">>, Unknown>> >>

\* the text and the name the claim selects for a record
ClaimText(r) ==
    IF language = JP
    THEN IF r.jpnHtmlText # None /\ r.jpnHtmlText # <<>> THEN r.jpnHtmlText
         ELSE IF r.jpnSearchText # None THEN r.jpnSearchText ELSE <<>>
    ELSE IF r.engHtmlText # None /\ r.engHtmlText # <<>> THEN r.engHtmlText
         ELSE IF r.engSearchText # None THEN r.engSearchText ELSE <<>>
ClaimName(r) ==
    IF language = JP
    THEN IF r.jpnChrName \in {None, <<>>} THEN Unknown ELSE r.jpnChrName
    ELSE IF r.engChrName \in {None, <<>>} THEN Unknown ELSE r.engChrName

\* a record without the fields of the language the run does not use
WithoutOtherLanguage(r) ==
    IF language = JP
    THEN [r EXCEPT !.engHtmlText = None, !.engSearchText = None,
                   !.engChrName = None]
    ELSE [r EXCEPT !.jpnHtmlText = None, !.jpnSearchText = None,
                   !.jpnChrName = None]

\* C7: the text of an entry comes from the HtmlText field of the run's
\* language when that is present and not empty, else from its SearchText
\* field, else it is empty; the name comes from its ChrName field, and is
\* "Unknown" when that is absent or empty; the fields of the other
\* language have no influence: the example record gives (3, "Hi there",
\* "Kara") in English.
C7_FieldSelection ==
    ApiListed =>
        \A k \in 1..Len(entries) :
            LET r == scripts[kept[k]] IN
            /\ entries[k][2] = process_text(BrToSpace[ClaimText(r)])
            /\ entries[k][3] = ClaimName(r)
            /\ entries[k] = map_script(WithoutOtherLanguage(r), start_id,
                                       finish_id, language)
            /\ language = EN /\ r.row = IntRow(3) /\ r.engHtmlText = HiBrThere
               /\ r.engChrName = Kara
                   => entries[k] = <<3, HiThere, Kara>>

\* an English run has mapped the example record, and a record whose English
\* text came from the search text and whose name is absent
C7_Witness ==
    /\ ApiListed /\ language = EN
    /\ Len(entries) = 2
    /\ entries[1] = <<3, HiThere, Kara>>
    /\ scripts[kept[2]].engHtmlText = None
    /\ entries[2] = <<2, <<"o", "k">>, Unknown>>

\* C8: a file is written only after the API call returned a list and the
\* filtered list is not empty; after an API error, an empty record list or a
\* list filtered down to nothing, the run has exited and no file exists.
C8_NoExportOnFailure ==
    /\ files # {} => api = "ok" /\ scripts # <<>> /\ entries # <<>>
    /\ \A f \in files : f.entries # <<>>
    /\ pc \in {"export_txt", "export_html"} => api = "ok" /\ entries # <<>>
    /\ api = "error" => pc = "exit_1" /\ files = {}
    /\ api = "ok" /\ pc \notin {"api_loop"} /\ entries = <<>> =>
           pc = "exit_1" /\ files = {}

\* the API returned records, every one was filtered out, and the run has
\* exited without a file
C8_Witness ==
    /\ pc = "exit_1" /\ api = "ok"
    /\ Len(scripts) = 2 /\ idx = 3
    /\ entries = <<>> /\ files = {}

\* C9: run_scraper is reached only with an open-ended range or with
\* end >= start >= 1; a run that ends on a configuration error has issued no
\* network request and written no file, and no request is issued for a URL
\* without fname or game_id.
C9_ConfigurationChecked ==
    /\ pc = "run_scraper" =>
           \/ scrape_until_end(finish_id)
           \/ finish_id.int >= start_id /\ start_id >= 1
    /\ pc \in {"exit_1", "exit_2"} /\ api = "none" =>
           requests = 0 /\ files = {}
    /\ requests > 0 => parse_game_and_fname_from_url(url).ok

\* the numbers of the rows at the kept positions
RowNumberAt(i) == row_num_of(scripts[i].row).int

\* C6 as stated: no two entries of the list carry the same number.
C6_NumbersUnique ==
    ApiListed =>
        \A k, l \in 1..Len(entries) : k # l => entries[k][1] # entries[l][1]

\* C6 as amended: every record of the source gives at most one entry, whose
\* number is the record's row, so the numbers of the list are unique
\* whenever the rows of the records kept are pairwise different.
C6_OneEntryPerRecord ==
    ApiListed =>
        /\ StrictlyIncreasing(kept)
        /\ Len(entries) = Len(kept)
        /\ \A k \in 1..Len(kept) :
               kept[k] < idx /\ entries[k][1] = RowNumberAt(kept[k])
        /\ (\A k, l \in 1..Len(kept) :
                k # l => RowNumberAt(kept[k]) # RowNumberAt(kept[l]))
           => \A k, l \in 1..Len(entries) :
                  k # l => entries[k][1] # entries[l][1]

\* the source returned the row 2 twice, once as a string: both records are
\* in the list, under the same number
C6_Witness ==
    /\ pc = "done" /\ language = EN
    /\ Len(entries) = 2 /\ kept = <<1, 2>>
    /\ entries[1][1] = 2 /\ entries[2][1] = 2
    /\ files # {}

-----------------------------------------------------------------------------
(* Properties of scrape_entries (SpecScan)                                 *)

\* the number of an entry of the HTML path, a string of digits, as an integer
NumberOf(e) == StrToInt[e[1]]

\* C5 as stated: every entry appended has a number that is not smaller than
\* the number of the entry appended before it, in a bounded and in an
\* open-ended scan alike.
C5_NumbersAscend ==
    pc \in {"open_loop", "bounded_loop", "returned"} =>
        \A k \in 1..(Len(entries) - 1) :
            NumberOf(entries[k]) <= NumberOf(entries[k + 1])

\* C5 as amended: the entries are in strictly ascending order of the id
\* visited that gave them, in a bounded and in an open-ended scan alike;
\* their numbers ascend whenever the numbers the document shows for the ids
\* that hit ascend with the ids.
C5_AscendingIds ==
    pc \in {"open_loop", "bounded_loop", "returned"} =>
        /\ StrictlyIncreasing(kept)
        /\ Len(entries) = Len(kept)
        /\ \A k \in 1..Len(kept) :
               entries[k] = extract_entry(page, kept[k], language)
        /\ (\A i, j \in 1..MaxId :
                i < j /\ Hit(i) /\ Hit(j) =>
                    NumberOf(extract_entry(page, i, language))
                        <= NumberOf(extract_entry(page, j, language)))
           => \A k \in 1..(Len(entries) - 1) :
                  NumberOf(entries[k]) <= NumberOf(entries[k + 1])

\* a scan has returned the entry numbered 2 for id 1 before the entry
\* numbered 1 for id 2
C5_Witness ==
    /\ pc = "returned" /\ soup.found
    /\ kept = <<1, 2>>
    /\ NumberOf(entries[1]) = 2 /\ NumberOf(entries[2]) = 1

-----------------------------------------------------------------------------
(* Properties of every result list (Spec)                                  *)

\* C4: no entry of a result list of scrape_entries or fetch_entries_via_api,
\* and no entry of a list handed to export_txt or export_html, has an empty
\* text.
C4_NoEmptyText ==
    /\ \A k \in 1..Len(entries) : entries[k][2] # <<>>
    /\ \A f \in files : \A k \in 1..Len(f.entries) : f.entries[k][2] # <<>>

\* an English scan has returned entries after visiting a row whose text is
\* blank once normalised
C4_Witness ==
    /\ pc = "returned" /\ soup.found /\ language = EN
    /\ entries # <<>>
    /\ \E k \in 1..Len(visited) :
           visited[k] <= MaxId /\ page.rows[visited[k]] = RowBlank

-----------------------------------------------------------------------------
(* Properties of extract_entry (SpecExtract)                               *)

\* the row extract_entry was given, when it has four cells and a number
ExtractedRow == soup.rows[entry_id]
RowUsable ==
    /\ entry_id \in DOMAIN soup.rows
    /\ ExtractedRow.elem /\ ExtractedRow.tr /\ Len(ExtractedRow.cells) >= 4
    /\ FirstDigits[get_text_strip(ExtractedRow.cells[1])] # None
TextCell == ExtractedRow.cells[IF language = EN THEN 3 ELSE 4]
RawText == get_text_sep(TextCell)

\* the elements each step of the fallback chain looks for
StepA == SelectSeq(TextCell, LAMBDA n : n.tag \in NameTags /\ ClassMatchesName(n))
StepB == SelectSeq(ExtractedRow.cells[1], LAMBDA n : n.tag \in NameTags)
StepC == SelectSeq(Flatten(ExtractedRow.cells), LAMBDA n : n.tag \in BoldTags)
StepD == SelectSeq(TextCell, LAMBDA n : n.tag \in BlockTags /\ ClassHasNameOrChar(n))

\* some step of the chain found an element
NameFound == StepA # <<>> \/ StepB # <<>> \/ StepC # <<>> \/ StepD # <<>>

\* the raw text without one leading occurrence of name, when name was found
\* and the raw text begins with it; the raw text otherwise
WithoutLeadingName(name) ==
    IF NameFound /\ StartsWith(RawText, name)
    THEN SubSeq(RawText, Len(name) + 1, Len(RawText))
    ELSE RawText

\* C11: the text extract_entry returns is the normalised raw text of the
\* text cell, without one leading occurrence of the character name whenever a
\* name was found by the fallback chain and the raw text begins with it
\* (name Bob, raw text "Bob says hi": "says hi"), and the normalised raw text
\* itself otherwise.
C11_NameStripped ==
    pc = "extracted" /\ RowUsable /\ entry_out # NoEntry =>
        entry_out[2] = process_text(WithoutLeadingName(entry_out[3]))

-----------------------------------------------------------------------------
(* The open-ended scan as a state machine (SpecScan)                       *)

\* the scanner is SCANNING in the open-ended loop, and DONE once the counter
\* has reached the threshold
Scanning == pc = "open_loop" /\ consecutive_misses < max_consecutive_misses
Done ==
    \/ pc = "open_loop" /\ consecutive_misses = max_consecutive_misses
    \/ pc = "returned" /\ OpenScanFetched

\* the step hands entry_id to the extractor
ExtractorInvoked == visited' = Append(visited, entry_id)

\* C12: while an open-ended scan runs the miss counter is between 0 and 10;
\* every step of the scanner hands the current id to the extractor, which
\* happens only while the counter is below 10, sets the counter to 0 on a hit
\* and adds 1 to it on a miss, appends the entry on a hit only, and adds 1 to
\* the id; once the counter is 10 the scanner is done: it returns, visits no
\* further id and appends no further entry.
C12_OpenScanMachine ==
    /\ [](pc = "open_loop" \/ (pc = "returned" /\ OpenScanFetched) =>
              /\ consecutive_misses \in 0..max_consecutive_misses
              /\ pc = "returned" => consecutive_misses = max_consecutive_misses)
    /\ [][Scanning =>
              /\ ExtractorInvoked
              /\ entry_id' = entry_id + 1
              /\ pc' = "open_loop"
              /\ IF Hit(entry_id)
                 THEN /\ consecutive_misses' = 0
                      /\ entries' = Append(entries,
                                        extract_entry(page, entry_id, language))
                 ELSE /\ consecutive_misses' = consecutive_misses + 1
                      /\ entries' = entries]_vars
    /\ [][Done => /\ UNCHANGED <<visited, entries, entry_id, consecutive_misses>>
                  /\ pc' = "returned"]_vars

\* an open-ended scan is done after a miss at its first id, a later hit and
\* ten further misses
C12_Witness ==
    /\ Done /\ pc = "open_loop"
    /\ ~Hit(start_id)
    /\ Len(entries) >= 1
    /\ Len(visited) > max_consecutive_misses + 1

-----------------------------------------------------------------------------
(* The fallback chain of the character name (SpecExtract)                  *)

\* the name an element shows
NameOf(node) == get_text_strip(<<node>>)

\* the name of the first step of the chain that finds an element
ChainName ==
    IF StepA # <<>> THEN NameOf(StepA[1])
    ELSE IF StepB # <<>> THEN NameOf(StepB[1])
    ELSE IF StepC # <<>> THEN NameOf(StepC[1])
    ELSE IF StepD # <<>> THEN NameOf(StepD[1])
    ELSE Unknown

\* C13: the character name of an entry is the name of the first step of the
\* chain that finds an element: (a) a span, div, strong or b of the text cell
\* with a class matching name or character, else (b) the first span, div,
\* strong or b of cell 0, else (c) the first strong or b of the row, else (d)
\* the first div, span or p of the text cell with a class containing name or
\* char, else "Unknown"; no later step replaces the name an earlier step found.
C13_NameChain ==
    pc = "extracted" /\ RowUsable /\ entry_out # NoEntry =>
        entry_out[3] = ChainName

-----------------------------------------------------------------------------
(* Retries of the network retrievals (SpecFetch)                           *)

Failed(i) == DOMAIN responses[i] = {"error"}

\* every request before the last one failed: none follows a success
OnlyLastMaySucceed == \A i \in 1..(Len(responses) - 1) : Failed(i)

\* the delay was slept once after every failed request but the last allowed
SleptBetween(n) == slept = [i \in 1..n |-> delay]

\* a retrieval that returned reports failure only after `retries` failed
\* requests, and otherwise returns what its first successful request gave
RetriedUpTo(failure, Success(_)) ==
    /\ Len(responses) \in 1..retries
    /\ OnlyLastMaySucceed
    /\ SleptBetween(Len(responses) - 1)
    /\ IF Failed(Len(responses))
       THEN result = failure /\ Len(responses) = retries
       ELSE result = Success(responses[Len(responses)])

SoupOf(response) == ReturnedSoup(response.document)
ListOf(response) == ReturnedList(response.json)

\* fetch_page retries: while it runs every request so far failed and was
\* followed by the delay; when it has returned, see RetriedUpTo
FetchPageRetries ==
    /\ pc = "fetch_page" =>
           /\ attempt = Len(responses) /\ attempt < retries
           /\ \A i \in 1..Len(responses) : Failed(i)
           /\ SleptBetween(attempt)
    /\ pc = "fetch_page_returned" => RetriedUpTo(ReturnedNone, SoupOf)

\* C14 as stated: fetch_page and get_script_detail alike retry a failed
\* request after the same fixed delay, up to a bounded number of attempts;
\* they return the result of the first successful request, make no request
\* after a success, and report failure (None, TrailsDbApiError) only after the
\* last allowed attempt has failed.
C14_BothRetry ==
    /\ FetchPageRetries
    /\ pc \in {"get_script_detail_returned", "get_script_detail_raised"} =>
           RetriedUpTo(RaisedApiError, ListOf)

\* C14, amended: fetch_page retries a failed request after the same fixed
\* delay, up to `retries` attempts, returns the document of the first
\* successful request, makes no request after a success and returns None only
\* after the last attempt has failed; get_script_detail makes exactly one
\* request, never sleeps, returns the list of a successful request and raises
\* TrailsDbApiError as soon as that one request fails.
C14_FetchPageRetries ==
    /\ FetchPageRetries
    /\ pc \in {"get_script_detail_returned", "get_script_detail_raised"} =>
           /\ Len(responses) = 1 /\ slept = <<>>
           /\ IF Failed(1)
              THEN result = RaisedApiError /\ pc = "get_script_detail_raised"
              ELSE result = ListOf(responses[1])
                   /\ pc = "get_script_detail_returned"

\* fetch_page has returned the document of its third request, after two
\* failed requests and two delays
C14_Witness ==
    /\ pc = "fetch_page_returned"
    /\ Len(responses) = retries
    /\ Failed(1) /\ Failed(2) /\ ~Failed(3)
    /\ slept = <<delay, delay>>
    /\ result = SoupOf(responses[3])

=============================================================================
